---- MODULE Spec2Model ----
(***************************************************************************)
(* Model of src/app.py, the Fallas air-pollution dashboard: one Streamlit  *)
(* script that loads a table of daily observations (memoised by            *)
(* st.cache_data), reads two sidebar widgets, filters the table by year    *)
(* and recomputes period means, a year-by-year comparison and the WHO       *)
(* exceedance figures on every script run.                                  *)
(*                                                                          *)
(* Numbers.  pandas holds the pollutant columns as float64 with NaN for a   *)
(* missing value.  A float is modelled as an exact fraction <<n, d>> in     *)
(* lowest terms with d > 0, and NaN as <<0, 0>>.  Rounding of float64 is    *)
(* not modelled.                                                            *)
(***************************************************************************)
EXTENDS Integers, Sequences, FiniteSets, TLC

\* Largest number of rows of the enumerated observation tables.
MaxRows == 2

-----------------------------------------------------------------------------
(* float64 arithmetic with NaN *)

NaN == <<0, 0>>

IsNaN(x) == x[2] = 0

NotNa(x) == ~IsNaN(x)

Abs(n) == IF n < 0 THEN -n ELSE n

RECURSIVE Gcd(_, _)
Gcd(a, b) == IF b = 0 THEN a ELSE Gcd(b, a % b)

\* The fraction n/d (d # 0) in lowest terms with a positive denominator.
Frac(n, d) ==
    LET g == Gcd(Abs(n), Abs(d))
        s == IF d < 0 THEN -1 ELSE 1
    IN  <<(s * n) \div g, (s * d) \div g>>

Num(n) == <<n, 1>>

FAdd(x, y) == IF IsNaN(x) \/ IsNaN(y) THEN NaN
              ELSE Frac(x[1] * y[2] + y[1] * x[2], x[2] * y[2])

FSub(x, y) == IF IsNaN(x) \/ IsNaN(y) THEN NaN
              ELSE Frac(x[1] * y[2] - y[1] * x[2], x[2] * y[2])

FMul(x, y) == IF IsNaN(x) \/ IsNaN(y) THEN NaN
              ELSE Frac(x[1] * y[1], x[2] * y[2])

\* numpy.float64 division: x / 0 does not raise (it yields inf or nan); the
\* only division of the script on floats is guarded by pre > 0.
FDiv(x, y) == IF IsNaN(x) \/ IsNaN(y) \/ y[1] = 0 THEN NaN
              ELSE Frac(x[1] * y[2], x[2] * y[1])

\* x > y on floats: False whenever either side is NaN.
FGt(x, y) == NotNa(x) /\ NotNa(y) /\ x[1] * y[2] > y[1] * x[2]

-----------------------------------------------------------------------------
(* The observation table *)

PM25 == "PM2.5(ug/m3)"
PM10 == "PM10(ug/m3)"
NO2  == "NO2(ug/m3)"
NOx  == "NOx(ug/m3)"

pollutant_options == <<PM25, PM10, NO2, NOx>>

Pollutants == {pollutant_options[i] : i \in DOMAIN pollutant_options}

PRE  == "Pre-Fallas (Mar 1-14)"
DUR  == "Fallas (Mar 15-19)"
POST == "Post-Fallas (Mar 20-31)"
REST == "Rest of Year"

period_order == <<PRE, DUR, POST, REST>>

Periods == {period_order[i] : i \in DOMAIN period_order}

who_guidelines == (PM25 :> 15) @@ (PM10 :> 45) @@ (NO2 :> 25)

Row(y, m, p, v) == [Year |-> y, Month |-> m, Period |-> p, val |-> v]

Vals(a, b, c, d) == (PM25 :> a) @@ (PM10 :> b) @@ (NO2 :> c) @@ (NOx :> d)

\* The rows the enumerated tables are built from: two years, the four
\* periods with the month the period label stands for, and three value
\* profiles (above every guideline, exactly on every guideline with a zero
\* NOx, and all four values missing).
PoolYears == <<2022, 2023>>

PoolMonthPeriods == <<<<3, PRE>>, <<3, DUR>>, <<3, POST>>, <<4, REST>>>>

PoolVals == << Vals(Num(20), Num(50), Num(30), Num(40)),
               Vals(Num(15), Num(45), Num(25), Num(0)),
               Vals(NaN, NaN, NaN, NaN) >>

PoolSize == Len(PoolYears) * Len(PoolMonthPeriods) * Len(PoolVals)

PoolRow(n) ==
    LET k  == n % Len(PoolVals)
        j  == (n \div Len(PoolVals)) % Len(PoolMonthPeriods)
        i  == n \div (Len(PoolVals) * Len(PoolMonthPeriods))
        mp == PoolMonthPeriods[j + 1]
    IN  Row(PoolYears[i + 1], mp[1], mp[2], PoolVals[k + 1])

\* Tables of at most MaxRows pool rows; row order carries no information for
\* any figure the script computes, so one order per multiset is enumerated.
TablesOfLen(n) ==
    { [i \in 1..n |-> PoolRow(s[i])] :
        s \in { f \in [1..n -> 0..(PoolSize - 1)] :
                  \A i \in 1..(n - 1) : f[i] <= f[i + 1] } }

BoundedTables == UNION { TablesOfLen(n) : n \in 0..MaxRows }

Only(pol, x) == [q \in Pollutants |-> IF q = pol THEN x ELSE NaN]

\* Fallas-period PM2.5 values 20, 10, 30 and one missing value.
ExceedanceExample ==
    << Row(2022, 3, DUR, Only(PM25, Num(20))),
       Row(2022, 3, DUR, Only(PM25, Num(10))),
       Row(2022, 3, DUR, Only(PM25, Num(30))),
       Row(2022, 3, DUR, Only(PM25, NaN)) >>

\* 2022 with pre = 10, during = 25 and 2023 with pre = 0, during = 5.
YearlyExample ==
    << Row(2022, 3, PRE, Only(PM25, Num(10))),
       Row(2022, 3, DUR, Only(PM25, Num(25))),
       Row(2023, 3, PRE, Only(PM25, Num(0))),
       Row(2023, 3, DUR, Only(PM25, Num(5))) >>

\* A period mean that is not a whole number, with a missing value among the
\* rows of the period, and a second year.
MeanExample ==
    << Row(2022, 3, PRE, Only(PM10, Num(10))),
       Row(2022, 3, PRE, Only(PM10, NaN)),
       Row(2022, 3, PRE, Only(PM10, Num(15))),
       Row(2023, 3, PRE, Only(PM10, Num(50))),
       Row(2022, 3, DUR, Only(PM10, Num(60))) >>

\* No year of the default list 2022..2025: the default selection falls back
\* to the last three available years.
OldYearsExample ==
    << Row(2018, 3, PRE, Only(PM25, Num(10))),
       Row(2019, 3, DUR, Only(PM25, Num(20))),
       Row(2020, 3, PRE, Only(PM25, Num(30))),
       Row(2021, 3, DUR, Only(PM25, Num(40))) >>

\* A Pre-Fallas label on a row whose Month is not 3 (the file is not
\* validated on load).
MislabelledExample ==
    << Row(2022, 4, PRE, Only(PM25, Num(10))),
       Row(2022, 3, DUR, Only(PM25, Num(20))) >>

ExampleTables == { ExceedanceExample, YearlyExample, MeanExample,
                   OldYearsExample, MislabelledExample }

Tables == BoundedTables \cup ExampleTables

-----------------------------------------------------------------------------
(* The aggregation, as the script computes it *)

Range(s) == {s[i] : i \in DOMAIN s}

\* Mutant of FilterByYears: falls back to the whole table also when the
\* selection matches no row.
FilterByYears_FallbackWhenNoMatch(t, years) ==
    LET In(r) == r.Year \in Range(years)
    IN  IF SelectSeq(t, In) # <<>> THEN SelectSeq(t, In) ELSE t

\* df[df['Year'].isin(selected_years)] if selected_years else df
FilterByYears(t, years) ==
    LET In(r) == r.Year \in Range(years)
    IN  IF years # <<>> THEN SelectSeq(t, In) ELSE t

\* t[t['Period'] == p]
WherePeriod(t, p) ==
    LET Is(r) == r.Period = p
    IN  SelectSeq(t, Is)

\* t[t['Month'] == m]
WhereMonth(t, m) ==
    LET Is(r) == r.Month = m
    IN  SelectSeq(t, Is)

\* t[t['Year'] == y]
WhereYear(t, y) ==
    LET Is(r) == r.Year = y
    IN  SelectSeq(t, Is)

\* t[pol]: one pollutant column
Column(t, pol) == [i \in 1..Len(t) |-> t[i].val[pol]]

RECURSIVE FSum(_)
FSum(col) == IF col = <<>> THEN Num(0) ELSE FAdd(Head(col), FSum(Tail(col)))

\* Mutant of Mean: missing values count as zeros instead of being skipped.
Mean_CountsMissing(col) ==
    LET present == SelectSeq(col, NotNa)
    IN  IF present = <<>> THEN NaN
        ELSE FDiv(FSum(present), Num(Len(col)))

\* Series.mean(): skipna=True, and NaN for a series with no value left.
Mean(col) ==
    LET present == SelectSeq(col, NotNa)
    IN  IF present = <<>> THEN NaN
        ELSE FDiv(FSum(present), Num(Len(present)))

\* filtered_df[filtered_df['Period'] == p][selected_pollutant].mean()
PeriodMean(t, p, pol) == Mean(Column(WherePeriod(t, p), pol))

\* Mutant of PctChange: the division without the pre > 0 guard.
PctChange_Unguarded(pre, during) ==
    FMul(FDiv(FSub(during, pre), pre), Num(100))

\* ((during - pre) / pre * 100) if pre > 0 else 0
PctChange(pre, during) ==
    IF FGt(pre, Num(0))
    THEN FMul(FDiv(FSub(during, pre), pre), Num(100))
    ELSE Num(0)

\* plot_df.groupby('Period')[pol].mean().reindex(period_order): the mean of
\* each group, NaN for a period with no row.
PeriodAvg(t, pol) ==
    LET In(r) == r.Period \in Periods
        plot_df == SelectSeq(t, In)
    IN  [p \in Periods |-> Mean(Column(WherePeriod(plot_df, p), pol))]

\* Mutant of YearlyStats: a record for every selected year, without the
\* notna test.
RECURSIVE YearlyStats_NoSkip(_, _, _)
YearlyStats_NoSkip(march, years, pol) ==
    IF years = <<>> THEN <<>>
    ELSE LET year      == Head(years)
             year_data == WhereYear(march, year)
             pre       == Mean(Column(WherePeriod(year_data, PRE), pol))
             during    == Mean(Column(WherePeriod(year_data, DUR), pol))
         IN  << [Year |-> year, PreFallas |-> pre, DuringFallas |-> during,
                 PctChange |-> IF FGt(pre, Num(0))
                               THEN FMul(FDiv(FSub(during, pre), pre), Num(100))
                               ELSE Num(0)] >>
             \o YearlyStats_NoSkip(march, Tail(years), pol)

\* The loop over selected_years that builds yearly_stats.
RECURSIVE YearlyStats(_, _, _)
YearlyStats(march, years, pol) ==
    IF years = <<>> THEN <<>>
    ELSE LET year      == Head(years)
             year_data == WhereYear(march, year)
             pre       == PeriodMean(year_data, PRE, pol)
             during    == PeriodMean(year_data, DUR, pol)
             rest      == YearlyStats(march, Tail(years), pol)
         IN  IF NotNa(pre) /\ NotNa(during)
             THEN << [Year |-> year, PreFallas |-> pre, DuringFallas |-> during,
                      PctChange |-> PctChange(pre, during)] >> \o rest
             ELSE rest

\* Mutant of ExceedanceDays: >= in place of >.
ExceedanceDays_AtLeast(fallas_data, pol, who_limit) ==
    LET AtLeast(x) == NotNa(x) /\ x[1] >= who_limit * x[2]
    IN  Len(SelectSeq(Column(fallas_data, pol), AtLeast))

\* len(fallas_data[fallas_data[pol] > who_limit])
ExceedanceDays(fallas_data, pol, who_limit) ==
    LET Over(x) == FGt(x, Num(who_limit))
    IN  Len(SelectSeq(Column(fallas_data, pol), Over))

\* len(fallas_data[fallas_data[pol].notna()])
TotalFallasDays(fallas_data, pol) ==
    Len(SelectSeq(Column(fallas_data, pol), NotNa))

\* exceedance_days / total_fallas_days * 100 on Python ints: the division
\* raises ZeroDivisionError when total_fallas_days is 0.
ExceedanceRate(exceedance_days, total_fallas_days) ==
    IF total_fallas_days = 0
    THEN [raised |-> TRUE, value |-> NaN]
    ELSE [raised |-> FALSE,
          value |-> FMul(Frac(exceedance_days, total_fallas_days), Num(100))]

RECURSIVE SortedSeq(_)
SortedSeq(S) ==
    IF S = {} THEN <<>>
    ELSE LET m == CHOOSE x \in S : \A y \in S : x <= y
         IN  <<m>> \o SortedSeq(S \ {m})

\* sorted([y for y in df['Year'].unique() if pd.notna(y)])
AvailableYears(t) == SortedSeq({t[i].Year : i \in DOMAIN t})

\* default_years if default_years else available_years[-3:]
DefaultYears(available_years) ==
    LET Avail(y) == y \in Range(available_years)
        default_years == SelectSeq(<<2022, 2023, 2024, 2025>>, Avail)
        n == Len(available_years)
    IN  IF default_years # <<>> THEN default_years
        ELSE SubSeq(available_years, IF n > 3 THEN n - 2 ELSE 1, n)

\* What a user can leave selected in the multiselect: any of the options,
\* each at most once, in the order they were picked.
YearSelections(available_years) ==
    UNION { { s \in [1..Cardinality(S) -> S] :
                \A i, j \in 1..Cardinality(S) : i # j => s[i] # s[j] } :
            S \in SUBSET Range(available_years) }

-----------------------------------------------------------------------------
(* The script run as a state machine *)

VARIABLES
    pc,                 \* where the current script run stands
    cache,              \* st.cache_data's memo of load_data: <<>> or <<table>>
    widget_state,       \* the session's widget values: <<>> before the first
                        \* render, then <<[years, pollutant]>>
    df,                 \* the table load_data returned to this run
    data_loaded,
    messages,           \* st.error / st.info / st.warning calls of this run
    sidebar,            \* TRUE once this run has created the filter widgets
    selected_years,
    selected_pollutant,
    filtered_df,
    metrics,            \* the period means, delta_pct and the WHO verdict
    march_df,
    period_avg,
    yearly_stats,
    health,             \* exceedance_days, total_fallas_days and the rate
    steps               \* the steps this run has executed

vars == << pc, cache, widget_state, df, data_loaded, messages, sidebar,
           selected_years, selected_pollutant, filtered_df, metrics, march_df,
           period_avg, yearly_stats, health, steps >>

NoMetrics == [pre_fallas |-> NaN, fallas |-> NaN, post_fallas |-> NaN,
              rest_year |-> NaN, delta_pct |-> NaN, exceeds |-> FALSE]

NoHealth == [exceedance_days |-> 0, total_fallas_days |-> 0,
             rate |-> [raised |-> FALSE, value |-> NaN]]

Msg(kind, text) == [kind |-> kind, text |-> text]

\* The names a script run starts with: nothing of an earlier run survives
\* but the cache and the session's widget values.
FreshRun ==
    /\ pc' = "load"
    /\ df' = <<>>
    /\ data_loaded' = FALSE
    /\ messages' = <<>>
    /\ sidebar' = FALSE
    /\ selected_years' = <<>>
    /\ selected_pollutant' = ""
    /\ filtered_df' = <<>>
    /\ metrics' = NoMetrics
    /\ march_df' = <<>>
    /\ period_avg' = [p \in Periods |-> NaN]
    /\ yearly_stats' = <<>>
    /\ health' = NoHealth
    /\ steps' = {}

Init ==
    /\ pc = "load"
    /\ cache = <<>>
    /\ widget_state = <<>>
    /\ df = <<>>
    /\ data_loaded = FALSE
    /\ messages = <<>>
    /\ sidebar = FALSE
    /\ selected_years = <<>>
    /\ selected_pollutant = ""
    /\ filtered_df = <<>>
    /\ metrics = NoMetrics
    /\ march_df = <<>>
    /\ period_avg = [p \in Periods |-> NaN]
    /\ yearly_stats = <<>>
    /\ health = NoHealth
    /\ steps = {}

\* load_data() reads the file (from data/ or from the current directory) and
\* the result is memoised.
LoadOk ==
    /\ pc = "load"
    /\ cache = <<>>
    /\ \E t \in Tables :
         /\ cache' = <<t>>
         /\ df' = t
    /\ data_loaded' = TRUE
    /\ steps' = steps \cup {"load_ok"}
    /\ pc' = "sidebar"
    /\ UNCHANGED << widget_state, messages, sidebar, selected_years,
                    selected_pollutant, filtered_df, metrics, march_df,
                    period_avg, yearly_stats, health >>

\* A later run: load_data() answers from the memo.
LoadCached ==
    /\ pc = "load"
    /\ cache # <<>>
    /\ df' = cache[1]
    /\ data_loaded' = TRUE
    /\ steps' = steps \cup {"load_ok"}
    /\ pc' = "sidebar"
    /\ UNCHANGED << cache, widget_state, messages, sidebar, selected_years,
                    selected_pollutant, filtered_df, metrics, march_df,
                    period_avg, yearly_stats, health >>

\* Mutant of LoadFail: data_loaded is set although the load failed, so the
\* script goes on to the sidebar.
LoadFail_StillLoaded ==
    /\ pc = "load"
    /\ cache = <<>>
    /\ messages' = messages \o << Msg("error", "Error loading data"),
                                  Msg("info", "Please make sure") >>
    /\ data_loaded' = TRUE
    /\ steps' = steps \cup {"load_failed"}
    /\ pc' = "sidebar"
    /\ UNCHANGED << cache, widget_state, df, sidebar, selected_years,
                    selected_pollutant, filtered_df, metrics, march_df,
                    period_avg, yearly_stats, health >>

\* Both read_csv calls fail (or the Fecha column does not parse): the
\* exception reaches the script's except clause; nothing is memoised.
LoadFail ==
    /\ pc = "load"
    /\ cache = <<>>
    /\ messages' = messages \o << Msg("error", "Error loading data"),
                                  Msg("info", "Please make sure") >>
    /\ data_loaded' = FALSE
    /\ steps' = steps \cup {"load_failed"}
    /\ pc' = "else"
    /\ UNCHANGED << cache, widget_state, df, sidebar, selected_years,
                    selected_pollutant, filtered_df, metrics, march_df,
                    period_avg, yearly_stats, health >>

\* else: st.error("Unable to load data. ...")
ElseBranch ==
    /\ pc = "else"
    /\ ~data_loaded
    /\ messages' = Append(messages, Msg("error", "Unable to load data"))
    /\ pc' = "done"
    /\ UNCHANGED << cache, widget_state, df, data_loaded, sidebar,
                    selected_years, selected_pollutant, filtered_df, metrics,
                    march_df, period_avg, yearly_stats, health, steps >>

\* The sidebar: the multiselect and the selectbox return the session's values,
\* or their defaults on the first render.
Sidebar ==
    /\ pc = "sidebar"
    /\ data_loaded
    /\ LET available_years == AvailableYears(df)
           now == IF widget_state = <<>>
                  THEN [years |-> DefaultYears(available_years),
                        pollutant |-> pollutant_options[1]]
                  ELSE widget_state[1]
       IN  /\ widget_state' = <<now>>
           /\ selected_years' = now.years
           /\ selected_pollutant' = now.pollutant
    /\ sidebar' = TRUE
    /\ steps' = steps \cup {"sidebar"}
    /\ pc' = "filter"
    /\ UNCHANGED << cache, df, data_loaded, messages, filtered_df, metrics,
                    march_df, period_avg, yearly_stats, health >>

\* Mutant of Filter: the filter is applied to df itself.
Filter_InPlace ==
    /\ pc = "filter"
    /\ df' = FilterByYears(df, selected_years)
    /\ filtered_df' = FilterByYears(df, selected_years)
    /\ steps' = steps \cup {"filter"}
    /\ pc' = "metrics"
    /\ UNCHANGED << cache, widget_state, data_loaded, messages, sidebar,
                    selected_years, selected_pollutant, metrics, march_df,
                    period_avg, yearly_stats, health >>

\* filtered_df = df[df['Year'].isin(selected_years)] if selected_years else df
Filter ==
    /\ pc = "filter"
    /\ filtered_df' = FilterByYears(df, selected_years)
    /\ steps' = steps \cup {"filter"}
    /\ pc' = "metrics"
    /\ UNCHANGED << cache, widget_state, df, data_loaded, messages, sidebar,
                    selected_years, selected_pollutant, metrics, march_df,
                    period_avg, yearly_stats, health >>

\* The four period means and the headline delta.
KeyMetrics ==
    /\ pc = "metrics"
    /\ LET pre_fallas == PeriodMean(filtered_df, PRE, selected_pollutant)
           fallas     == PeriodMean(filtered_df, DUR, selected_pollutant)
       IN  metrics' =
             [pre_fallas  |-> pre_fallas,
              fallas      |-> fallas,
              post_fallas |-> PeriodMean(filtered_df, POST, selected_pollutant),
              rest_year   |-> PeriodMean(filtered_df, REST, selected_pollutant),
              delta_pct   |-> PctChange(pre_fallas, fallas),
              exceeds     |-> /\ selected_pollutant \in DOMAIN who_guidelines
                              /\ FGt(fallas, Num(who_guidelines[selected_pollutant]))]
    /\ steps' = steps \cup {"metrics"}
    /\ pc' = "tab1"
    /\ UNCHANGED << cache, widget_state, df, data_loaded, messages, sidebar,
                    selected_years, selected_pollutant, filtered_df, march_df,
                    period_avg, yearly_stats, health >>

\* Tab 1: the March rows (a copy), a line chart or a warning.
TimeSeriesTab ==
    /\ pc = "tab1"
    /\ march_df' = WhereMonth(filtered_df, 3)
    /\ messages' = IF Len(WhereMonth(filtered_df, 3)) > 0 THEN messages
                   ELSE Append(messages, Msg("warning", "No March data"))
    /\ steps' = steps \cup {"tab1"}
    /\ pc' = "tab2"
    /\ UNCHANGED << cache, widget_state, df, data_loaded, sidebar,
                    selected_years, selected_pollutant, filtered_df, metrics,
                    period_avg, yearly_stats, health >>

\* Tab 2: the bar chart of the period averages.
PeriodTab ==
    /\ pc = "tab2"
    /\ period_avg' = PeriodAvg(filtered_df, selected_pollutant)
    /\ steps' = steps \cup {"tab2"}
    /\ pc' = "tab3"
    /\ UNCHANGED << cache, widget_state, df, data_loaded, messages, sidebar,
                    selected_years, selected_pollutant, filtered_df, metrics,
                    march_df, yearly_stats, health >>

\* Tab 3: the year-by-year statistics.
YearlyTab ==
    /\ pc = "tab3"
    /\ march_df' = WhereMonth(filtered_df, 3)
    /\ yearly_stats' = YearlyStats(WhereMonth(filtered_df, 3), selected_years,
                                   selected_pollutant)
    /\ steps' = steps \cup {"tab3"}
    /\ pc' = "tab4"
    /\ UNCHANGED << cache, widget_state, df, data_loaded, messages, sidebar,
                    selected_years, selected_pollutant, filtered_df, metrics,
                    period_avg, health >>

\* Tab 4 for a pollutant with a guideline: the two counts, then the f-string
\* that divides them.  A ZeroDivisionError ends the script run.
HealthTab ==
    /\ pc = "tab4"
    /\ selected_pollutant \in DOMAIN who_guidelines
    /\ LET who_limit         == who_guidelines[selected_pollutant]
           fallas_data       == WherePeriod(filtered_df, DUR)
           exceedance_days   == ExceedanceDays(fallas_data, selected_pollutant,
                                               who_limit)
           total_fallas_days == TotalFallasDays(fallas_data, selected_pollutant)
           rate              == ExceedanceRate(exceedance_days, total_fallas_days)
       IN  /\ health' = [exceedance_days |-> exceedance_days,
                         total_fallas_days |-> total_fallas_days,
                         rate |-> rate]
           /\ pc' = IF rate.raised THEN "raised" ELSE "done"
           /\ messages' = IF rate.raised THEN messages
                          ELSE Append(messages, Msg("info", "WHO Air Quality Guideline"))
    /\ steps' = steps \cup {"tab4"}
    /\ UNCHANGED << cache, widget_state, df, data_loaded, sidebar,
                    selected_years, selected_pollutant, filtered_df, metrics,
                    march_df, period_avg, yearly_stats >>

\* Tab 4 for a pollutant without a guideline: an info box only.
HealthTabNoGuideline ==
    /\ pc = "tab4"
    /\ selected_pollutant \notin DOMAIN who_guidelines
    /\ messages' = Append(messages, Msg("info", "WHO guidelines are most stringent"))
    /\ steps' = steps \cup {"tab4"}
    /\ pc' = "done"
    /\ UNCHANGED << cache, widget_state, df, data_loaded, sidebar,
                    selected_years, selected_pollutant, filtered_df, metrics,
                    march_df, period_avg, yearly_stats, health >>

\* The user changes a filter widget: Streamlit runs the script again from the
\* top with the new widget values.
ChangeFilters ==
    /\ pc \in {"done", "raised"}
    /\ sidebar
    /\ \E ys \in YearSelections(AvailableYears(df)), p \in Pollutants :
         widget_state' = << [years |-> ys, pollutant |-> p] >>
    /\ FreshRun
    /\ UNCHANGED cache

\* The page is loaded again: a new session runs the script with no widget
\* values of its own; the memo of load_data outlives the session.
Reload ==
    /\ pc \in {"done", "raised"}
    /\ widget_state' = <<>>
    /\ FreshRun
    /\ UNCHANGED cache

Next ==
    \/ LoadOk
    \/ LoadCached
    \/ LoadFail
    \/ ElseBranch
    \/ Sidebar
    \/ Filter
    \/ KeyMetrics
    \/ TimeSeriesTab
    \/ PeriodTab
    \/ YearlyTab
    \/ HealthTab
    \/ HealthTabNoGuideline
    \/ ChangeFilters
    \/ Reload

Spec == Init /\ [][Next]_vars

-----------------------------------------------------------------------------
(* The year filter alone, on inputs drawn from bounded sets: any table with  *)
(* any selection of years, among them years no row of the table has.         *)

FilterYears == <<2022, 2023, 2024>>

FilterInit ==
    /\ pc = "filter"
    /\ cache = <<>>
    /\ widget_state = <<>>
    /\ df \in Tables
    /\ data_loaded = TRUE
    /\ messages = <<>>
    /\ sidebar = TRUE
    /\ selected_years \in YearSelections(FilterYears)
    /\ selected_pollutant = pollutant_options[1]
    /\ filtered_df = <<>>
    /\ metrics = NoMetrics
    /\ march_df = <<>>
    /\ period_avg = [p \in Periods |-> NaN]
    /\ yearly_stats = <<>>
    /\ health = NoHealth
    /\ steps = {}

FilterSpec == FilterInit /\ [][Filter]_vars

-----------------------------------------------------------------------------
(* Vocabulary of the properties, stated on the rows of the loaded table and  *)
(* not through the operators above.                                          *)

\* The selected year filter lets row r through.
Selected(r) == selected_years = <<>> \/ \E k \in DOMAIN selected_years : selected_years[k] = r.Year

\* Indices of the rows of df that pass the year filter, lie in period p and
\* have a value for the selected pollutant.
ValueRows(p) ==
    { i \in DOMAIN df : /\ Selected(df[i])
                        /\ df[i].Period = p
                        /\ df[i].val[selected_pollutant][2] # 0 }

MetricOf(p) ==
    CASE p = PRE  -> metrics.pre_fallas
      [] p = DUR  -> metrics.fallas
      [] p = POST -> metrics.post_fallas
      [] p = REST -> metrics.rest_year

RECURSIVE SumOfValues(_)
SumOfValues(I) ==
    IF I = {} THEN 0
    ELSE LET i == CHOOSE x \in I : TRUE
         IN  df[i].val[selected_pollutant][1] + SumOfValues(I \ {i})

AggregationSteps == {"filter", "metrics", "tab1", "tab2", "tab3", "tab4"}

ErrorCount == Cardinality({ i \in DOMAIN messages : messages[i].kind = "error" })

-----------------------------------------------------------------------------
(* Properties *)

\* C1: periodMean is exactly 0.0, never NaN, whenever the filtered table has
\* no row of the requested period with a value for the selected pollutant;
\* for each of the four periods and each pollutant.
C1_PeriodMeanZeroWithoutData ==
    /\ "metrics" \in steps =>
          \A p \in Periods : ValueRows(p) = {} => MetricOf(p) = Num(0)
    /\ "tab2" \in steps =>
          \A p \in Periods : ValueRows(p) = {} => period_avg[p] = Num(0)

\* C2: for a pollutant with a guideline the exceedance step returns a result
\* and does not raise, and its rate is marked not-applicable exactly when
\* totalDays is 0.
C2_RateNotApplicableIffNoDays ==
    ("tab4" \in steps /\ selected_pollutant \in DOMAIN who_guidelines) =>
        /\ pc # "raised"
        /\ ~health.rate.raised
        /\ IsNaN(health.rate.value) <=> health.total_fallas_days = 0

\* C7 as stated: a failed load is reported exactly once as an error message;
\* the run that failed creates no filter widget and executes no aggregation.
C7_LoadFailureReportedOnce ==
    ("load_failed" \in steps /\ pc = "done") =>
        /\ ErrorCount = 1
        /\ ~sidebar
        /\ steps \cap AggregationSteps = {}

\* C7 as amended: a failed load is reported by two error messages (the one
\* with the exception right after the load, and "Unable to load data" from
\* the else branch) and one hint; the run that failed creates no filter
\* widget and executes no aggregation, and an aggregation step or a widget
\* exists only in a run whose load succeeded.
C7_LoadFailureReportedTwice ==
    /\ ("load_failed" \in steps /\ pc = "done") =>
           messages = << Msg("error", "Error loading data"),
                         Msg("info", "Please make sure"),
                         Msg("error", "Unable to load data") >>
    /\ "load_failed" \in steps =>
           /\ ~sidebar
           /\ steps \cap AggregationSteps = {}
           /\ metrics = NoMetrics /\ yearly_stats = <<>> /\ health = NoHealth
    /\ (sidebar \/ steps \cap AggregationSteps # {}) =>
           /\ "load_ok" \in steps
           /\ data_loaded
           /\ cache = <<df>>

C7_Witness ==
    /\ "load_failed" \in steps
    /\ pc = "done"
    /\ ErrorCount = 2

\* C8: a recomputation pass on a loaded table never raises, whatever the
\* table, the selected years and the pollutant.
C8_PassNeverRaises ==
    data_loaded => pc # "raised"


\* C3: the yearly comparison holds one record for year y exactly when y is
\* selected and the rows with Year = y and Month = 3 have a value of the
\* pollutant both in the Pre-Fallas and in the Fallas period; no year occurs
\* twice, none outside the selection, and no record carries a missing mean.
C3_YearlyComparisonYears ==
    "tab3" \in steps =>
        LET HasValue(y, p) ==
                \E i \in DOMAIN df : /\ df[i].Year = y
                                     /\ df[i].Month = 3
                                     /\ df[i].Period = p
                                     /\ df[i].val[selected_pollutant][2] # 0
            expected == { selected_years[k] : k \in
                            { k \in DOMAIN selected_years :
                                /\ HasValue(selected_years[k], PRE)
                                /\ HasValue(selected_years[k], DUR) } }
        IN  /\ { yearly_stats[i].Year : i \in DOMAIN yearly_stats } = expected
            /\ Len(yearly_stats) = Cardinality(expected)
            /\ \A i \in DOMAIN yearly_stats :
                   /\ yearly_stats[i].PreFallas[2] # 0
                   /\ yearly_stats[i].DuringFallas[2] # 0

\* Two years selected, one with both means and one lacking a mean.
C3_Witness ==
    /\ "tab3" \in steps
    /\ Len(selected_years) = 2
    /\ Len(yearly_stats) = 1
    /\ \E i \in DOMAIN df : /\ df[i].Year # yearly_stats[1].Year
                            /\ df[i].Year \in Range(selected_years)

\* pct is (during - pre) / pre * 100 when pre > 0 and exactly 0 when pre = 0,
\* so its sign is the sign of during - pre unless pre = 0 (pre, during >= 0
\* and not missing).
PctChangeAsClaimed(pre, during, pct) ==
    LET diff == during[1] * pre[2] - pre[1] * during[2]
    IN  /\ pre[1] > 0 =>
              /\ pct[2] # 0
              /\ pct[1] * during[2] * pre[1] = pct[2] * 100 * diff
              /\ (pct[1] > 0) = (diff > 0)
              /\ (pct[1] < 0) = (diff < 0)
        /\ pre[1] = 0 => pct = <<0, 1>>

\* C4: every record of the yearly comparison, and the headline delta, has
\* pctChange = (during - pre) / pre * 100 when pre > 0 and 0 when pre = 0;
\* 2022 with pre 10 and during 25 gives 150, 2023 with pre 0 and during 5
\* is included with 0.
C4_PctChange ==
    /\ "tab3" \in steps =>
          \A i \in DOMAIN yearly_stats :
              PctChangeAsClaimed(yearly_stats[i].PreFallas,
                                 yearly_stats[i].DuringFallas,
                                 yearly_stats[i].PctChange)
    /\ ("metrics" \in steps /\ metrics.pre_fallas[2] # 0 /\ metrics.fallas[2] # 0) =>
          PctChangeAsClaimed(metrics.pre_fallas, metrics.fallas, metrics.delta_pct)
    /\ ( /\ "tab3" \in steps
         /\ df = YearlyExample
         /\ selected_pollutant = PM25
         /\ selected_years = <<2022, 2023>> ) =>
          yearly_stats =
            << [Year |-> 2022, PreFallas |-> <<10, 1>>, DuringFallas |-> <<25, 1>>,
                PctChange |-> <<150, 1>>],
               [Year |-> 2023, PreFallas |-> <<0, 1>>, DuringFallas |-> <<5, 1>>,
                PctChange |-> <<0, 1>>] >>

C4_Witness ==
    /\ "tab3" \in steps
    /\ df = YearlyExample
    /\ selected_pollutant = PM25
    /\ selected_years = <<2022, 2023>>
    /\ Len(yearly_stats) = 2
    /\ yearly_stats[2].PreFallas = <<0, 1>>
    /\ metrics.delta_pct[1] > 0

\* C5: exceedDays is the number of Fallas-period rows of the filtered table
\* with a concentration strictly above the limit, totalDays the number of
\* those with a concentration at all, so 0 <= exceedDays <= totalDays;
\* Fallas values 20, 10, 30, missing with limit 15 give 2 and 3.
C5_ExceedanceCounts ==
    ("tab4" \in steps /\ selected_pollutant \in DOMAIN who_guidelines) =>
        LET limit == who_guidelines[selected_pollutant]
            over  == { i \in ValueRows(DUR) :
                         df[i].val[selected_pollutant][1]
                           > limit * df[i].val[selected_pollutant][2] }
        IN  /\ health.exceedance_days = Cardinality(over)
            /\ health.total_fallas_days = Cardinality(ValueRows(DUR))
            /\ 0 <= health.exceedance_days
            /\ health.exceedance_days <= health.total_fallas_days
            /\ (df = ExceedanceExample /\ selected_pollutant = PM25) =>
                   /\ health.exceedance_days = 2
                   /\ health.total_fallas_days = 3

C5_Witness ==
    /\ "tab4" \in steps
    /\ df = ExceedanceExample
    /\ selected_pollutant = PM25
    /\ health.exceedance_days = 2
    /\ health.total_fallas_days = 3
    /\ Len(WherePeriod(filtered_df, DUR)) = 4


\* C6: with a non-empty selection the filter returns exactly the rows of the
\* table whose Year is selected, each as often as the table has it and in
\* the table's order, so a selection matching no row gives the empty table;
\* with an empty selection it returns the whole table.
C6_FilterByYears ==
    "filter" \in steps =>
        LET match == { i \in DOMAIN df :
                         \E k \in DOMAIN selected_years : selected_years[k] = df[i].Year }
            Nth(k) == CHOOSE i \in match :
                         Cardinality({ j \in match : j <= i }) = k
        IN  /\ selected_years = <<>> => filtered_df = df
            /\ selected_years # <<>> =>
                  /\ Len(filtered_df) = Cardinality(match)
                  /\ \A k \in 1..Len(filtered_df) : filtered_df[k] = df[Nth(k)]
                  /\ match = {} => filtered_df = <<>>

\* A non-empty selection that matches none of the rows of a non-empty table.
C6_Witness ==
    /\ "filter" \in steps
    /\ selected_years # <<>>
    /\ df # <<>>
    /\ \A i \in DOMAIN df : df[i].Year \notin Range(selected_years)
    /\ filtered_df = <<>>

\* C9: when the filtered table has a row of the period with a value of the
\* pollutant, the period mean is the sum of exactly those values over their
\* number (missing values, other periods and unselected years leave it
\* alone), and so lies between the least and the greatest of them.
C9_PeriodMeanIsArithmeticMean ==
    "metrics" \in steps =>
        \A p \in Periods :
            LET I == ValueRows(p)
                m == MetricOf(p)
            IN  I # {} =>
                  /\ m[2] > 0
                  /\ m[1] * Cardinality(I) = m[2] * SumOfValues(I)
                  /\ \E i \in I : df[i].val[selected_pollutant][1] * m[2] <= m[1]
                  /\ \E i \in I : df[i].val[selected_pollutant][1] * m[2] >= m[1]
                  /\ \A i \in I :
                        (\A j \in I : df[i].val[selected_pollutant][1]
                                        <= df[j].val[selected_pollutant][1])
                          => df[i].val[selected_pollutant][1] * m[2] <= m[1]
                  /\ \A i \in I :
                        (\A j \in I : df[i].val[selected_pollutant][1]
                                        >= df[j].val[selected_pollutant][1])
                          => df[i].val[selected_pollutant][1] * m[2] >= m[1]

\* The Pre-Fallas PM10 mean of 2022 over 10, a missing value and 15, with a
\* 2023 row left out by the year filter: 25/2.
C9_Witness ==
    /\ "metrics" \in steps
    /\ df = MeanExample
    /\ selected_pollutant = PM10
    /\ selected_years = <<2022>>
    /\ metrics.pre_fallas = <<25, 2>>

\* C10: once the table is loaded no step changes it: the memoised table stays
\* what it was, and the table a run works on is the memoised one after every
\* step of every run.
C10_TableNeverModified ==
    [][ /\ cache # <<>> => cache' = cache
        /\ data_loaded' => cache' = <<df'>> ]_vars

\* A second pass, after a change of the filters, that filtered rows away.
C10_Witness ==
    /\ pc = "done"
    /\ data_loaded
    /\ widget_state # <<>>
    /\ selected_years # DefaultYears(AvailableYears(df))
    /\ filtered_df # df
    /\ cache = <<df>>

====
